---- MODULE Spec2Model ----
(***************************************************************************)
(* A model of shoemaker.py: the writer of the "pairs" file format.         *)
(*                                                                         *)
(* PairsHeader holds the file's configuration and prints the header block; *)
(* PairsLine holds one record, canonicalises the two mates to the header's *)
(* triangle on add, and prints the record as one tab-separated line.       *)
(*                                                                         *)
(* Text is modelled as a sequence of tokens (TLA+ strings): a write of     *)
(* "#shape : upper triangle\n" is the token sequence                       *)
(* <<"#", "shape", " : ", "upper triangle", "\n">>.  A dict is modelled as *)
(* the sequence of its <<key, value>> items in insertion order, its keys   *)
(* distinct.  Python's str comparison is modelled on the code points of    *)
(* the chromosome names.                                                   *)
(***************************************************************************)
EXTENDS Integers, Sequences, FiniteSets, TLC

VARIABLES
    header,   \* the PairsHeader object (header.constructed = FALSE: none yet)
    self,     \* the PairsLine object: its attributes and which of them are set
    call      \* the most recent call: its name, how it ended, its arguments
              \* (kept when they decide a property below), and the text it
              \* wrote to the sink fout it was given

vars == <<header, self, call>>

(***************************************************************************)
(* Bounds of the model.                                                    *)
(***************************************************************************)
MaxPos == 2          \* positions passed to add range over -1 .. MaxPos
MaxOptional == 2     \* items in a mapping passed to add / add_optional
MaxColumns == 2      \* names in additional_columns
MaxLines == 2        \* items in additional_lines

(***************************************************************************)
(* Python values.                                                          *)
(***************************************************************************)
None == "None"

RECURSIVE SeqsUpTo(_, _)
\* The sequences over S of length at most n.
SeqsUpTo(S, n) ==
    IF n = 0 THEN {<<>>}
    ELSE LET shorter == SeqsUpTo(S, n - 1)
         IN  shorter \cup {Append(s, x) : s \in shorter, x \in S}

Keys(d) == {d[i][1] : i \in 1..Len(d)}

\* The dicts (item sequences with distinct keys) of at most n items.
DictsUpTo(K, V, n) ==
    {d \in SeqsUpTo(K \X V, n) : Cardinality(Keys(d)) = Len(d)}

Contains(seq, x) == \E i \in 1..Len(seq) : seq[i] = x

RECURSIVE DictUpdate(_, _, _)
\* dict.update({k: v}): an existing key keeps its place and takes the new
\* value; a new key is appended.
DictUpdate(d, k, v) ==
    IF d = <<>> THEN <<<<k, v>>>>
    ELSE IF Head(d)[1] = k THEN <<<<k, v>>>> \o Tail(d)
    ELSE <<Head(d)>> \o DictUpdate(Tail(d), k, v)

\* d[k] for a key the dict holds.
DictGet(d, k) == d[CHOOSE i \in 1..Len(d) : d[i][1] = k][2]

(***************************************************************************)
(* Strings and their order.  CodePoints gives each chromosome name as the  *)
(* sequence of its characters' code points; Python compares two str values *)
(* lexicographically on these.                                             *)
(***************************************************************************)
ChromosomeNames == {"11", "2", "X"}

CodePoints(s) ==
    CASE s = "11" -> <<49, 49>>
      [] s = "2"  -> <<50>>
      [] s = "X"  -> <<88>>

RECURSIVE LexLess(_, _)
LexLess(a, b) ==
    IF a = <<>> THEN b # <<>>
    ELSE IF b = <<>> THEN FALSE
    ELSE IF Head(a) # Head(b) THEN Head(a) < Head(b)
    ELSE LexLess(Tail(a), Tail(b))

\* s < t and s > t on str.
StrLess(s, t) == LexLess(CodePoints(s), CodePoints(t))
StrGreater(s, t) == StrLess(t, s)

RECURSIVE Insert(_, _)
Insert(sorted, x) ==
    IF sorted = <<>> THEN <<x>>
    ELSE IF StrLess(x, Head(sorted)) THEN <<x>> \o sorted
    ELSE <<Head(sorted)>> \o Insert(Tail(sorted), x)

RECURSIVE ListSort(_)
\* list.sort() on a list of str: ascending, stable.
ListSort(list) ==
    IF list = <<>> THEN <<>>
    ELSE Insert(ListSort(SubSeq(list, 1, Len(list) - 1)), list[Len(list)])

RECURSIVE Join(_, _)
\* sep.join(list), as tokens.
Join(sep, list) ==
    IF list = <<>> THEN <<>>
    ELSE IF Len(list) = 1 THEN <<list[1]>>
    ELSE <<list[1], sep>> \o Join(sep, Tail(list))

(***************************************************************************)
(* PairsHeader.                                                            *)
(***************************************************************************)
reserved_header_keys == <<"shape", "sorted", "chromosomes", "genome_assembly", "columns">>

BaseColumns == <<"readID", "chr1", "position1", "chr2", "position2", "strand1", "strand2">>

NoHeader ==
    [constructed |-> FALSE, shape |-> "U", sorted |-> "chr1-chr2-pos1-pos2",
     chromosomes |-> <<>>, genome_assembly |-> None, columns |-> <<>>,
     additional_lines |-> <<>>]

RECURSIVE AppendColumns_ReservedOnly(_, _)
\* AppendColumns asserting each name absent from the 7 reserved columns only.
AppendColumns_ReservedOnly(columns, additional) ==
    IF additional = <<>> THEN [ok |-> TRUE, columns |-> columns]
    ELSE IF Contains(BaseColumns, Head(additional))
         THEN [ok |-> FALSE, columns |-> columns]
         ELSE AppendColumns_ReservedOnly(Append(columns, Head(additional)),
                                         Tail(additional))

RECURSIVE AppendColumns(_, _)
\* The loop over additional_columns: each name is asserted absent from the
\* columns built so far, then appended.  ok = FALSE: the assert failed.
AppendColumns(columns, additional) ==
    IF additional = <<>> THEN [ok |-> TRUE, columns |-> columns]
    ELSE IF Contains(columns, Head(additional))
         THEN [ok |-> FALSE, columns |-> columns]
         ELSE AppendColumns(Append(columns, Head(additional)), Tail(additional))

RECURSIVE AddLines(_, _)
\* The loop over additional_lines.items().
AddLines(lines, items) ==
    IF items = <<>> THEN [ok |-> TRUE, lines |-> lines]
    ELSE IF Contains(reserved_header_keys, Head(items)[1])
         THEN [ok |-> FALSE, lines |-> lines]
         ELSE AddLines(DictUpdate(lines, Head(items)[1], Head(items)[2]), Tail(items))

\* PairsHeader.__init__.  a.chromosomes is [isNone, list]; a.additional_lines
\* is [isDict, items].  The assert on sorted is `x == 'chr1-chr2-pos1-pos2' or
\* 'chr1-chr2-pos1-pos2'`, whose second operand is a non-empty str: it passes
\* for every value.
PairsHeaderInit(a) ==
    LET cols  == AppendColumns(BaseColumns, a.additional_columns)
        lines == AddLines(<<>>, a.additional_lines.items)
        sortedOk == a.sorted = "chr1-chr2-pos1-pos2" \/ TRUE
    IN  IF a.chromosomes.isNone THEN [result |-> "AssertionError", header |-> NoHeader]
        ELSE IF ~(a.shape = "U" \/ a.shape = "L")
             THEN [result |-> "AssertionError", header |-> NoHeader]
        ELSE IF ~sortedOk THEN [result |-> "AssertionError", header |-> NoHeader]
        ELSE IF ~cols.ok THEN [result |-> "AssertionError", header |-> NoHeader]
        ELSE IF ~a.additional_lines.isDict
             THEN [result |-> "AssertionError", header |-> NoHeader]
        ELSE IF ~lines.ok THEN [result |-> "AssertionError", header |-> NoHeader]
        ELSE [result |-> "ok",
              header |-> [constructed |-> TRUE,
                          shape |-> a.shape,
                          sorted |-> a.sorted,
                          chromosomes |-> ListSort(a.chromosomes.list),
                          genome_assembly |-> a.genome_assembly,
                          columns |-> cols.columns,
                          additional_lines |-> lines.lines]]

RECURSIVE format_additional_lines(_)
\* One "#{} : {}\n" per item of additional_lines, in the dict's order.
format_additional_lines(lines) ==
    IF lines = <<>> THEN <<>>
    ELSE <<"#", Head(lines)[1], " : ", Head(lines)[2], "\n">>
         \o format_additional_lines(Tail(lines))

\* print_header writing the columns line before the genome_assembly line.
print_header_ColumnsFirst(h) ==
    LET shape == IF h.shape = "U" THEN "upper triangle" ELSE "lower triangle"
    IN  <<"#", "shape", " : ", shape, "\n">>
        \o <<"#", "sorted", " : ", h.sorted, "\n">>
        \o (<<"#", "chromosomes", " : ">> \o Join(" ", h.chromosomes) \o <<"\n">>)
        \o (<<"#", "columns", " : ">> \o Join(" ", h.columns) \o <<"\n">>)
        \o (IF h.genome_assembly # None
            THEN <<"#", "genome_assembly", " : ", h.genome_assembly, "\n">>
            ELSE <<>>)
        \o format_additional_lines(h.additional_lines)

\* The text print_header writes to fout, write by write.  The last write is
\* skipped when the block is the empty str (and would add nothing if made).
print_header(h) ==
    LET shape == IF h.shape = "U" THEN "upper triangle" ELSE "lower triangle"
        additional_lines_formatted == format_additional_lines(h.additional_lines)
    IN  <<"#", "shape", " : ", shape, "\n">>
        \o <<"#", "sorted", " : ", h.sorted, "\n">>
        \o (<<"#", "chromosomes", " : ">> \o Join(" ", h.chromosomes) \o <<"\n">>)
        \o (IF h.genome_assembly # None
            THEN <<"#", "genome_assembly", " : ", h.genome_assembly, "\n">>
            ELSE <<>>)
        \o (<<"#", "columns", " : ">> \o Join(" ", h.columns) \o <<"\n">>)
        \o (IF additional_lines_formatted # <<>>
            THEN additional_lines_formatted
            ELSE <<>>)

(***************************************************************************)
(* PairsLine.                                                              *)
(***************************************************************************)
\* An int n, and a float (a non-int) whose integer part is n.
IntValue(n) == [int |-> TRUE, val |-> n]
FloatValue(n) == [int |-> FALSE, val |-> n]

\* "{}".format(p) for a number.
FormatNumber(p) == IF p.int THEN ToString(p.val) ELSE ToString(p.val) \o ".5"

\* PairsLine.__init__: only self.header is set; attrs names the other
\* attributes that exist on the object ("mates" stands for chr1, chr2, pos1,
\* pos2, strand1, strand2, which are only ever set together).
NewLine ==
    [attrs |-> {}, readID |-> ".", chr1 |-> "", pos1 |-> IntValue(0),
     chr2 |-> "", pos2 |-> IntValue(0), strand1 |-> ".", strand2 |-> ".",
     optional |-> <<>>]

RECURSIVE add_optional(_, _, _)
\* PairsLine.add_optional: item by item, the key is asserted to be a header
\* column and the item is merged into self.optional.  An item that fails
\* leaves the earlier items merged.
add_optional(h, s, keyvaluepairs) ==
    IF keyvaluepairs = <<>> THEN [result |-> "ok", self |-> s]
    ELSE LET k == Head(keyvaluepairs)[1]
             v == Head(keyvaluepairs)[2]
         IN  IF ~Contains(h.columns, k) THEN [result |-> "AssertionError", self |-> s]
             ELSE IF "optional" \notin s.attrs
                  THEN [result |-> "AttributeError", self |-> s]
             ELSE add_optional(h, [s EXCEPT !.optional = DictUpdate(@, k, v)],
                               Tail(keyvaluepairs))

\* PositionOk with `>= 0` for `> 0`.
PositionOk_ZeroAllowed(pos) == pos.int /\ pos.val >= 0

\* isinstance(pos, int) and pos > 0
PositionOk(pos) == pos.int /\ pos.val > 0

\* SwapIf with `>=` for `>` between the positions.
SwapIf_OrEqual(h, a) ==
    (h.shape = "U" /\ StrGreater(a.chr1, a.chr2))
    \/ (a.chr1 = a.chr2 /\ a.pos1.val >= a.pos2.val)

\* The condition of the if (line 88).  `and` binds tighter than `or`.
SwapIf(h, a) ==
    (h.shape = "U" /\ StrGreater(a.chr1, a.chr2))
    \/ (a.chr1 = a.chr2 /\ a.pos1.val > a.pos2.val)

\* The condition of the elif (line 95).
SwapElif(h, a) ==
    (h.shape = "L" /\ StrGreater(a.chr2, a.chr1))
    \/ (a.chr1 = a.chr2 /\ a.pos1.val < a.pos2.val)

Swapped(s, a) ==
    [s EXCEPT !.attrs = @ \cup {"mates"},
              !.chr1 = a.chr2, !.chr2 = a.chr1,
              !.pos1 = a.pos2, !.pos2 = a.pos1,
              !.strand1 = a.strand2, !.strand2 = a.strand1]

AsGiven(s, a) ==
    [s EXCEPT !.attrs = @ \cup {"mates"},
              !.chr1 = a.chr1, !.chr2 = a.chr2,
              !.pos1 = a.pos1, !.pos2 = a.pos2,
              !.strand1 = a.strand1, !.strand2 = a.strand2]

\* ResetOptional that creates the dict only when the object has none.
ResetOptional_KeepValues(s) ==
    [s EXCEPT !.attrs = @ \cup {"optional"},
              !.optional = IF "optional" \in s.attrs THEN @ ELSE <<>>]

\* The reset of the optional columns (line 83).
ResetOptional(s) == [s EXCEPT !.attrs = @ \cup {"optional"}, !.optional = <<>>]

\* PairsLine.add.
add(h, s, a) ==
    IF ~Contains(h.chromosomes, a.chr1) THEN [result |-> "AssertionError", self |-> s]
    ELSE IF ~Contains(h.chromosomes, a.chr2) THEN [result |-> "AssertionError", self |-> s]
    ELSE IF ~PositionOk(a.pos1) THEN [result |-> "AssertionError", self |-> s]
    ELSE IF ~PositionOk(a.pos2) THEN [result |-> "AssertionError", self |-> s]
    ELSE LET s1 == [s EXCEPT !.attrs = @ \cup {"readID"}, !.readID = a.readID]
             s2 == ResetOptional(s1)
             r  == IF Len(a.optional) > 0
                   THEN add_optional(h, s2, a.optional)
                   ELSE [result |-> "ok", self |-> s2]
         IN  IF r.result # "ok" THEN r
             ELSE IF SwapIf(h, a) THEN [result |-> "ok", self |-> Swapped(r.self, a)]
             ELSE IF SwapElif(h, a) THEN [result |-> "ok", self |-> Swapped(r.self, a)]
             ELSE [result |-> "ok", self |-> AsGiven(r.self, a)]

RECURSIVE OptionalFields(_, _)
\* The loop over self.optional.keys(): one "\t{}" per key.
OptionalFields(optional, i) ==
    IF i > Len(optional) THEN <<>>
    ELSE <<"\t", DictGet(optional, optional[i][1])>> \o OptionalFields(optional, i + 1)

\* PairsLine.printline: the text written to fout.  Reading an attribute the
\* object does not have raises before the first write.
printline(h, s) ==
    IF ~({"readID", "mates"} \subseteq s.attrs)
    THEN [result |-> "AttributeError", writes |-> <<>>]
    ELSE [result |-> "ok",
          writes |-> <<s.readID, "\t", s.chr1, "\t", FormatNumber(s.pos1), "\t",
                       s.chr2, "\t", FormatNumber(s.pos2), "\t",
                       s.strand1, "\t", s.strand2>>
                     \o (IF Len(h.columns) > Len(BaseColumns)
                         THEN OptionalFields(s.optional, 1)
                         ELSE <<>>)
                     \o <<"\n">>]

(***************************************************************************)
(* The arguments the callers pass.                                         *)
(***************************************************************************)
NoArgs == <<>>

ChromosomeLists == {<<"2", "11">>, <<"X", "2", "11">>}

ListArg(list) == [isNone |-> FALSE, list |-> list]
NoneArg == [isNone |-> TRUE, list |-> <<>>]
DictArg(items) == [isDict |-> TRUE, items |-> items]
NotADict == [isDict |-> FALSE, items |-> <<>>]

\* Every call of PairsHeader(...) the header specification tries.
HeaderInputs ==
    [chromosomes : {NoneArg} \cup {ListArg(l) : l \in ChromosomeLists},
     shape : {"U", "L", "X"},
     sorted : {"chr1-chr2-pos1-pos2", "chr1-pos1-chr2-pos2", "pos1-pos2"},
     genome_assembly : {None, "hg19"},
     additional_columns : SeqsUpTo({"mismatch", "score", "chr1"}, MaxColumns),
     additional_lines : {NotADict} \cup
         {DictArg(d) : d \in DictsUpTo({"creator", "note", "shape"}, {"haha"}, MaxLines)}]

\* The headers the records are written under.
LineHeaderInputs ==
    [chromosomes : {ListArg(<<"2", "11">>)},
     shape : {"U", "L"},
     sorted : {"chr1-chr2-pos1-pos2"},
     genome_assembly : {None},
     additional_columns : {<<>>, <<"mismatch">>},
     additional_lines : {DictArg(<<>>)}]

\* Positions: the ints -1 .. MaxPos and a float.
PosInputs == {IntValue(n) : n \in (0 - 1)..MaxPos} \cup {FloatValue(1)}

\* strand1, strand2 and readID: left to their defaults, or all given.
OtherInputs ==
    {[strand1 |-> ".", strand2 |-> ".", readID |-> "."],
     [strand1 |-> "+", strand2 |-> "-", readID |-> "r1"]}

\* Mappings of column names to values; "strand1" is a reserved column,
\* "mismatch" a column only of the headers that declare it.
OptionalInputs == DictsUpTo({"mismatch", "strand1"}, {"a"}, MaxOptional)

AddArgs(c1, p1, c2, p2, o, m) ==
    [chr1 |-> c1, pos1 |-> p1, chr2 |-> c2, pos2 |-> p2,
     strand1 |-> o.strand1, strand2 |-> o.strand2, readID |-> o.readID,
     optional |-> m]

Returned(op, result, args, writes) ==
    [op |-> op, result |-> result, args |-> args, writes |-> writes]

(***************************************************************************)
(* The operations.                                                         *)
(***************************************************************************)
\* header = PairsHeader(...), the first call of a run, once per output
\* file.  A constructor that raises leaves no header, and the exception
\* ends the run.
Construct ==
    /\ call.op = "start"
    /\ \E a \in HeaderInputs :
          LET r == PairsHeaderInit(a)
          IN  /\ header' = r.header
              /\ call' = Returned("PairsHeader", r.result, a, <<>>)
    /\ UNCHANGED self

\* header.print_header(fout)
PrintHeader ==
    /\ header.constructed
    /\ call' = Returned("print_header", "ok", NoArgs, print_header(header))
    /\ UNCHANGED <<header, self>>

\* self = PairsLine(header)
NewPairsLine ==
    /\ header.constructed
    /\ self' = NewLine
    /\ call' = Returned("PairsLine", "ok", NoArgs, <<>>)
    /\ UNCHANGED header

\* self.add(chr1, pos1, chr2, pos2, strand1, strand2, readID, optional).
\* The arguments are kept in call when add returns.
Add ==
    /\ header.constructed
    /\ \E c1, c2 \in ChromosomeNames, p1, p2 \in PosInputs,
          o \in OtherInputs, m \in OptionalInputs :
          LET a == AddArgs(c1, p1, c2, p2, o, m)
              r == add(header, self, a)
          IN  /\ self' = r.self
              /\ call' = Returned("add", r.result,
                                  IF r.result = "ok" THEN a ELSE NoArgs, <<>>)
    /\ UNCHANGED header

\* self.add_optional(keyvaluepairs), called by the user
AddOptional ==
    /\ header.constructed
    /\ \E m \in OptionalInputs :
          LET r == add_optional(header, self, m)
          IN  /\ self' = r.self
              /\ call' = Returned("add_optional", r.result, NoArgs, <<>>)
    /\ UNCHANGED header

\* self.printline(fout)
PrintLine ==
    /\ header.constructed
    /\ LET r == printline(header, self)
       IN  call' = Returned("printline", r.result, NoArgs, r.writes)
    /\ UNCHANGED <<header, self>>

(***************************************************************************)
(* Spec: the records of one file.  A header has been constructed; a        *)
(* PairsLine is created and reused for any number of records.              *)
(***************************************************************************)
Init ==
    /\ header \in {PairsHeaderInit(a).header : a \in LineHeaderInputs}
    /\ self = NewLine
    /\ call = Returned("PairsLine", "ok", NoArgs, <<>>)

Next == NewPairsLine \/ Add \/ AddOptional \/ PrintLine

Spec == Init /\ [][Next]_vars

(***************************************************************************)
(* SpecHeader: the header of one file, from its construction.              *)
(***************************************************************************)
InitHeader ==
    /\ header = NoHeader
    /\ self = NewLine
    /\ call = Returned("start", "ok", NoArgs, <<>>)

NextHeader == Construct \/ PrintHeader

SpecHeader == InitHeader /\ [][NextHeader]_vars

(***************************************************************************)
(* Reading the written text back: its lines, and a line's fields.          *)
(***************************************************************************)
RECURSIVE Split(_, _, _)
\* The segments of text that end with the token sep (cur: the segment begun).
Split(text, sep, cur) ==
    IF text = <<>> THEN (IF cur = <<>> THEN <<>> ELSE <<cur>>)
    ELSE IF Head(text) = sep THEN <<cur>> \o Split(Tail(text), sep, <<>>)
    ELSE Split(Tail(text), sep, Append(cur, Head(text)))

Lines(text) == Split(text, "\n", <<>>)

\* The fields of a data line: the tokens between tabs.
Fields(line) == Split(Append(line, "\t"), "\t", <<>>)

\* The key of a header line "#key : value".
LineKey(line) == IF Len(line) >= 3 /\ line[1] = "#" /\ line[3] = " : " THEN line[2] ELSE "?"

DictKeys(d) == [i \in 1..Len(d) |-> d[i][1]]

NoDuplicates(seq) == \A i, j \in 1..Len(seq) : seq[i] = seq[j] => i = j

\* The place of a chromosome in header.chromosomes (its first, if repeated).
ChromosomeIndex(h, c) ==
    CHOOSE i \in 1..Len(h.chromosomes) :
        h.chromosomes[i] = c /\ \A j \in 1..(i - 1) : h.chromosomes[j] # c

\* Locus (c1, p1) is ordered <= locus (c2, p2): chromosome order, then position.
LocusLeq(h, c1, p1, c2, p2) ==
    \/ ChromosomeIndex(h, c1) < ChromosomeIndex(h, c2)
    \/ c1 = c2 /\ p1.val <= p2.val

StoredAsGiven(a) ==
    /\ self.chr1 = a.chr1 /\ self.pos1 = a.pos1 /\ self.strand1 = a.strand1
    /\ self.chr2 = a.chr2 /\ self.pos2 = a.pos2 /\ self.strand2 = a.strand2

StoredSwapped(a) ==
    /\ self.chr1 = a.chr2 /\ self.pos1 = a.pos2 /\ self.strand1 = a.strand2
    /\ self.chr2 = a.chr1 /\ self.pos2 = a.pos1 /\ self.strand2 = a.strand1

AddReturned == call.op = "add" /\ call.result = "ok"

(***************************************************************************)
(* The claims.                                                             *)
(***************************************************************************)

\* C1: whenever the record holds two mates, they are in the header's
\* triangle: for shape U locus 1 is ordered <= locus 2, for shape L locus 1
\* is ordered >= locus 2 (chromosomes by their place in header.chromosomes,
\* then positions).  The code breaks this for two mates on one chromosome.
C1_Triangularity ==
    "mates" \in self.attrs =>
        IF header.shape = "U"
        THEN LocusLeq(header, self.chr1, self.pos1, self.chr2, self.pos2)
        ELSE LocusLeq(header, self.chr2, self.pos2, self.chr1, self.pos1)

\* C2: under shape U an add that returns has stored the mates exchanged
\* exactly when chr1 is ordered after chr2 or (chr1 = chr2 and pos1 > pos2),
\* and as given otherwise.
C2_UpperSwapRule ==
    (AddReturned /\ header.shape = "U") =>
        LET a == call.args
        IN  IF \/ ChromosomeIndex(header, a.chr1) > ChromosomeIndex(header, a.chr2)
               \/ (a.chr1 = a.chr2 /\ a.pos1.val > a.pos2.val)
            THEN StoredSwapped(a)
            ELSE StoredAsGiven(a)

\* C3: under shape L an add that returns has stored the mates exchanged
\* exactly when chr2 is ordered before chr1 or (chr1 = chr2 and pos1 < pos2),
\* and as given otherwise.
C3_LowerSwapRule ==
    (AddReturned /\ header.shape = "L") =>
        LET a == call.args
        IN  IF \/ ChromosomeIndex(header, a.chr2) < ChromosomeIndex(header, a.chr1)
               \/ (a.chr1 = a.chr2 /\ a.pos1.val < a.pos2.val)
            THEN StoredSwapped(a)
            ELSE StoredAsGiven(a)

\* C4: an add of two mates on the same chromosome at the same position
\* stores both mates, strands included, in the slots they were given in,
\* under either shape.
C4_TieKeepsOrder ==
    (AddReturned /\ call.args.chr1 = call.args.chr2 /\ call.args.pos1 = call.args.pos2)
        => StoredAsGiven(call.args)

\* C4's case: a tie with different strands has been added under shape L.
C4_Witness ==
    /\ AddReturned /\ header.shape = "L"
    /\ call.args.chr1 = call.args.chr2 /\ call.args.pos1 = call.args.pos2
    /\ call.args.strand1 = "+" /\ call.args.strand2 = "-"
    /\ self.strand1 = "+" /\ self.strand2 = "-"

\* C5: add raises whenever chr1 or chr2 is not in header.chromosomes or pos1
\* or pos2 is zero, negative or not an int; and add returns whenever both
\* chromosomes are in the list, both positions are positive ints and every
\* key of the optional mapping is a header column.  Stated of add for every
\* argument tuple in every state the record can be in, and of the arguments
\* of every add that returned.
C5_Validation ==
    LET Member(c) == \E i \in 1..Len(header.chromosomes) : header.chromosomes[i] = c
        Positive(p) == p.int /\ p.val >= 1
        Valid(a) == Member(a.chr1) /\ Member(a.chr2) /\ Positive(a.pos1) /\ Positive(a.pos2)
    IN  /\ \A c1, c2 \in ChromosomeNames, p1, p2 \in PosInputs,
              o \in OtherInputs, m \in OptionalInputs :
              LET a == AddArgs(c1, p1, c2, p2, o, m)
                  r == add(header, self, a)
              IN  /\ ~Valid(a) => r.result = "AssertionError"
                  /\ (Valid(a) /\ \A k \in Keys(m) : Contains(header.columns, k))
                         => r.result = "ok"
        /\ AddReturned => Valid(call.args)

\* C5's case: an add on a record that holds values has raised.
C5_Witness ==
    call.op = "add" /\ call.result = "AssertionError" /\ "mates" \in self.attrs

\* C6: an add that raises on a record holding the values of an earlier add
\* leaves every stored field as it was.  The code has by then replaced
\* readID and the optional mapping when the raise comes from a key of the
\* optional mapping.
C6_FailedAddKeepsRecord ==
    [][(call'.op = "add" /\ call'.result # "ok" /\ "mates" \in self.attrs)
          => self' = self]_vars

\* C9: when add returns, the record's optional mapping is exactly the
\* mapping passed to that add (empty when none was passed), whatever the
\* record held before.
C9_AddResetsOptional ==
    AddReturned => self.optional = call.args.optional

\* C9's case: an add given one optional value has returned on a header that
\* declares a second column the record could still hold a value for.
C9_Witness ==
    /\ AddReturned
    /\ Len(header.columns) > Len(BaseColumns)
    /\ call.args.optional = <<<<"strand1", "a">>>>
    /\ self.optional = <<<<"strand1", "a">>>>

RECURSIVE ExtraColumnValues(_, _)
\* The values the record holds for the header's columns beyond the reserved
\* ones, in the mapping's order.
ExtraColumnValues(h, optional) ==
    IF optional = <<>> THEN <<>>
    ELSE (IF /\ Contains(h.columns, Head(optional)[1])
             /\ ~Contains(BaseColumns, Head(optional)[1])
          THEN <<<<Head(optional)[2]>>>>
          ELSE <<>>)
         \o ExtraColumnValues(h, Tail(optional))

\* C10: printline writes one line: the 7 base fields, then only the values
\* held for header columns beyond the 7 reserved ones, then a newline; never
\* more fields than the header has columns, and exactly 7 when the header
\* has only the base columns.
C10_LineFields ==
    (call.op = "printline" /\ call.result = "ok") =>
        LET lines == Lines(call.writes)
            f == Fields(lines[1])
        IN  /\ Len(lines) = 1
            /\ call.writes[Len(call.writes)] = "\n"
            /\ Len(f) >= 7
            /\ SubSeq(f, 1, 7) = <<<<self.readID>>, <<self.chr1>>, <<FormatNumber(self.pos1)>>,
                                   <<self.chr2>>, <<FormatNumber(self.pos2)>>,
                                   <<self.strand1>>, <<self.strand2>>>>
            /\ SubSeq(f, 8, Len(f)) = ExtraColumnValues(header, self.optional)
            /\ Len(f) <= Len(header.columns)
            /\ Len(header.columns) = 7 => Len(f) = 7

\* C7: a constructed header's columns are the 7 reserved names in order,
\* then the additional columns in the order given, no name twice; and the
\* constructor raises when an additional column is a reserved name or
\* repeats an earlier additional column.
C7_HeaderColumns ==
    /\ header.constructed =>
          /\ SubSeq(header.columns, 1, 7) =
                <<"readID", "chr1", "position1", "chr2", "position2", "strand1", "strand2">>
          /\ NoDuplicates(header.columns)
    /\ call.op = "PairsHeader" =>
          LET extra == call.args.additional_columns
          IN  /\ call.result = "ok" =>
                    /\ header.constructed
                    /\ SubSeq(header.columns, 8, Len(header.columns)) = extra
              /\ (\/ \E i \in 1..Len(extra) : Contains(BaseColumns, extra[i])
                  \/ ~NoDuplicates(extra))
                    => (call.result = "AssertionError" /\ ~header.constructed)

\* C7's case: a header with two additional columns has been constructed.
C7_Witness ==
    /\ call.op = "PairsHeader" /\ call.result = "ok"
    /\ Len(call.args.additional_columns) = 2
    /\ Len(header.columns) = 9

\* The keys of the lines print_header is to write, in order.
HeaderKeys(h) ==
    <<"shape", "sorted", "chromosomes">>
    \o (IF h.genome_assembly # None THEN <<"genome_assembly">> ELSE <<>>)
    \o <<"columns">>
    \o DictKeys(h.additional_lines)

\* C8: print_header writes the lines shape, sorted, chromosomes,
\* genome_assembly (if and only if it is not None), columns, then one
\* "#key : value" line per additional line in insertion order; 5 lines when
\* genome_assembly is set and there is no additional line.
C8_HeaderBlockOrder ==
    call.op = "print_header" =>
        LET lines == Lines(call.writes)
            n == Len(header.additional_lines)
        IN  /\ [i \in 1..Len(lines) |-> LineKey(lines[i])] = HeaderKeys(header)
            /\ call.writes[Len(call.writes)] = "\n"
            /\ \A i \in 1..n :
                  lines[Len(lines) - n + i] =
                      <<"#", header.additional_lines[i][1], " : ",
                        header.additional_lines[i][2]>>
            /\ (header.genome_assembly # None /\ n = 0) => Len(lines) = 5
            /\ (header.genome_assembly = None /\ n = 0) => Len(lines) = 4

\* C8's case: a header with genome_assembly set and two additional lines
\* has been printed.
C8_Witness ==
    /\ call.op = "print_header"
    /\ header.genome_assembly = "hg19"
    /\ Len(header.additional_lines) = 2
    /\ Len(Lines(call.writes)) = 7

====
